---- MODULE Spec2Model ----
(***************************************************************************)
(* Lumina-T2I demo (lumina_t2i/demo.py) and its command-line declarations  *)
(* (lumina_t2i/entry_point.py).                                            *)
(*                                                                         *)
(* The front-end process (main) parses the command line, starts one worker *)
(* process (model_main) per accelerator, builds the UI and meets the       *)
(* workers at a barrier before it serves requests.  Every UI submission    *)
(* (on_submit) puts the nine UI values on each worker's request queue and  *)
(* reads one message from the shared response queue.                       *)
(***************************************************************************)
EXTENDS Integers, Sequences, FiniteSets, TLC

\* ------------------------------------------------------------------ bounds

\* --num_gpus is drawn from 0..MaxGpus
MaxGpus == 2
\* number of UI sessions that may be inside on_submit at the same time
NumCallers == 2
\* total number of on_submit calls in a run
MaxRequests == 2

Ranks == 0 .. (MaxGpus - 1)
Callers == 1 .. NumCallers

VARIABLES
    mainPc,          \* position of the front-end process in main()
    num_gpus,        \* args.num_gpus
    parser,          \* the options registered on main's ArgumentParser
    spawn_i,         \* loop variable i of main's spawn loop
    processes,       \* ranks of the worker processes main has started
    worker_resp,     \* rank -> the response_queue argument given to that worker
    request_queues,  \* list of request queues, one per started worker
    response_queue,  \* [made, q]: the shared response queue
    mp_barrier,      \* [made, parties, n_waiting]: the start-up barrier
    wpc,             \* rank -> position of that worker in model_main()
    cur,             \* rank -> <<>> or <<the request being processed>>
    cpc,             \* caller -> position inside on_submit
    cargs,           \* caller -> <<>> or <<the args tuple of its call>>
    cresult,         \* caller -> <<>> or <<the message it took>>
    cid,             \* (history) caller -> number of the call it is making
    nextId,          \* (history) number the next on_submit call gets
    published        \* (history) every message ever put on response_queue

\* The body of the worker's loop statement by statement (SamplerSpec), and one
\* invocation of a command of entry_point (CliSpec).
VARIABLES
    s_pc,            \* position of the worker inside one iteration of its loop
    s_req,           \* the nine unpacked fields of the request being processed
    s_loc,           \* the locals the try block assigns for this request
    rng,             \* state of torch's random generator in the worker process
    model_kwargs,    \* the local model_kwargs (it outlives the iteration)
    train_args,      \* the training arguments loaded from the checkpoint
    s_served,        \* number of requests taken so far
    s_resp,          \* <<>> or <<the last message put on response_queue>>
    cli              \* the command line being handled by entry_point

detail_vars ==
    << s_pc, s_req, s_loc, rng, model_kwargs, train_args, s_served, s_resp, cli >>

program_vars ==
    << mainPc, num_gpus, parser, spawn_i, processes, worker_resp,
       request_queues, response_queue, mp_barrier, wpc, cur,
       cpc, cargs, cresult, cid, nextId, published >>

vars == << mainPc, num_gpus, parser, spawn_i, processes, worker_resp,
           request_queues, response_queue, mp_barrier, wpc, cur,
           cpc, cargs, cresult, cid, nextId, published,
           s_pc, s_req, s_loc, rng, model_kwargs, train_args, s_served,
           s_resp, cli >>

\* ------------------------------------------------ command-line declarations

\* One declared option.  flags: the option strings in declaration order, the
\* long one last; choices: <<>> when unrestricted; default: as written, "None"
\* when absent, "False" for a flag.
Opt(flags, type, default, choices) ==
    [flags |-> flags, type |-> type, default |-> default, choices |-> choices]

\* the long option string of a declaration
Long(o) == o.flags[Len(o.flags)]

\* entry_point.py: transport_options
transport_options ==
    { Opt(<<"--path-type">>, "Choice", "Linear", <<"Linear", "GVP", "VP">>),
      Opt(<<"--prediction">>, "Choice", "velocity", <<"velocity", "score", "noise">>),
      Opt(<<"--loss-weight">>, "Choice", "None", <<"None", "velocity", "likelihood">>),
      Opt(<<"--sample-eps">>, "float", "None", <<>>),
      Opt(<<"--train-eps">>, "float", "None", <<>>) }

\* entry_point.py: ode_options
ode_options ==
    { Opt(<<"-a", "--atol">>, "float", "1e-6", <<>>),
      Opt(<<"-r", "--rtol">>, "float", "1e-3", <<>>),
      Opt(<<"--reverse">>, "flag", "False", <<>>),
      Opt(<<"--likelihood">>, "flag", "False", <<>>) }

\* entry_point.py: sde_options
sde_options ==
    { Opt(<<"--sampling-method">>, "Choice", "Euler", <<"Euler", "Heun">>),
      Opt(<<"--diffusion-form">>, "Choice", "sigma",
          <<"constant", "SBDM", "sigma", "linear", "decreasing", "increasing-decreasing">>),
      Opt(<<"--diffusion-norm">>, "float", "1.0", <<>>),
      Opt(<<"--last-step">>, "Choice", "Mean", <<"None", "Mean", "Tweedie", "Euler">>),
      Opt(<<"--last-step-size">>, "float", "0.04", <<>>) }

\* demo.py: parse_transport_args(parser)
parse_transport_args(p) ==
    p \cup
    { Opt(<<"--path-type">>, "str", "Linear", <<"Linear", "GVP", "VP">>),
      Opt(<<"--prediction">>, "str", "velocity", <<"velocity", "score", "noise">>),
      Opt(<<"--loss-weight">>, "none_or_str", "None", <<"None", "velocity", "likelihood">>),
      Opt(<<"--sample-eps">>, "float", "None", <<>>),
      Opt(<<"--train-eps">>, "float", "None", <<>>) }

\* C8 mutant: --atol declared with another default
parse_ode_args_atol(p) ==
    p \cup
    { Opt(<<"--atol">>, "float", "1e-5", <<>>),
      Opt(<<"--rtol">>, "float", "1e-3", <<>>),
      Opt(<<"--reverse">>, "flag", "False", <<>>),
      Opt(<<"--likelihood">>, "flag", "False", <<>>) }

\* demo.py: parse_ode_args(parser)
parse_ode_args(p) ==
    p \cup
    { Opt(<<"--atol">>, "float", "1e-6", <<>>),
      Opt(<<"--rtol">>, "float", "1e-3", <<>>),
      Opt(<<"--reverse">>, "flag", "False", <<>>),
      Opt(<<"--likelihood">>, "flag", "False", <<>>) }

\* demo.py: parse_sde_args(parser); defined, never called by main
parse_sde_args(p) ==
    p \cup
    { Opt(<<"--sampling-method">>, "str", "Euler", <<"Euler", "Heun">>),
      Opt(<<"--diffusion-form">>, "str", "sigma",
          <<"constant", "SBDM", "sigma", "linear", "decreasing", "increasing-decreasing">>),
      Opt(<<"--diffusion-norm">>, "float", "1.0", <<>>),
      Opt(<<"--last-step">>, "none_or_str", "Mean", <<"None", "Mean", "Tweedie", "Euler">>),
      Opt(<<"--last-step-size">>, "float", "0.04", <<>>) }

\* demo.py main(): the options main declares itself
main_options ==
    { Opt(<<"--num_gpus">>, "int", "1", <<>>),
      Opt(<<"--ckpt">>, "str", "required", <<>>),
      Opt(<<"--ema">>, "flag", "False", <<>>),
      Opt(<<"--precision">>, "str", "bf16", <<"bf16", "fp32">>) }

\* demo.py main(): the parser main builds before parse_known_args
main_parser == parse_ode_args(parse_transport_args(main_options))

\* ------------------------------------------------------------- UI and tuples

\* the inputs list of submit_btn.click
InputList ==
    << "cap", "resolution", "num_sampling_steps", "cfg_scale", "solver",
       "t_shift", "seed", "ntk_scaling", "proportional_attn" >>

\* C9 mutant: the two toggles unpacked in the other order
UnpackListSwapped ==
    << "cap", "resolution", "num_sampling_steps", "cfg_scale", "solver",
       "t_shift", "seed", "proportional_attn", "ntk_scaling" >>

\* the target list of the tuple assignment in model_main's loop
UnpackList ==
    << "cap", "resolution", "num_sampling_steps", "cfg_scale", "solver",
       "t_shift", "seed", "ntk_scaling", "proportional_attn" >>

ControlNames == { InputList[i] : i \in 1 .. Len(InputList) }

\* Values of the UI controls at the moment Submit is pressed (a sample of the
\* values the controls offer; the first is the controls' initial values).
UIStates ==
    { [ cap |-> "A fluffy mouse holding a watermelon", resolution |-> "1024x1024",
        num_sampling_steps |-> 60, cfg_scale |-> 4, solver |-> "euler",
        t_shift |-> 4, seed |-> 1, ntk_scaling |-> TRUE, proportional_attn |-> TRUE ],
      [ cap |-> "", resolution |-> "(Extrapolation) 1664x1664",
        num_sampling_steps |-> 30, cfg_scale |-> 7, solver |-> "dopri5",
        t_shift |-> 6, seed |-> 0, ntk_scaling |-> FALSE, proportional_attn |-> TRUE ],
      [ cap |-> "A humanoid eagle soldier of the First World War.", resolution |-> "512x2048",
        num_sampling_steps |-> 1000, cfg_scale |-> 20, solver |-> "dopri8",
        t_shift |-> 1, seed |-> 100000, ntk_scaling |-> TRUE, proportional_attn |-> FALSE ] }

\* gradio calls on_submit(*args) with the values of the inputs, in list order
CallArgs(ui) == [ i \in 1 .. Len(InputList) |-> ui[InputList[i]] ]

\* position of a name in a list of names
IndexOf(list, n) == CHOOSE i \in 1 .. Len(list) : list[i] = n

\* the tuple assignment of model_main: the k-th name gets the k-th element
Unpack(args) == [ n \in ControlNames |-> args[IndexOf(UnpackList, n)] ]

\* ------------------------------------------------------------------ messages

\* What on_submit puts on a request queue: the args tuple.  id (the number of
\* the call) and ui (the control values the call was made with) are history
\* fields; the program does not carry them.
RequestMsg(args, id, ui) == [ args |-> args, id |-> id, ui |-> ui ]

\* the PIL image the worker renders for the request it holds
Image(req) == [ kind |-> "image", id |-> req.id, fields |-> req.fields ]

\* an instance of class ModelFailure (it has no attributes; id is history)
ModelFailure(req) == [ kind |-> "ModelFailure", id |-> req.id, fields |-> << >> ]

\* (history) published, extended by what a step added to the response queue:
\* q2 is the queue after the step, q the queue before it
Logged(q, q2) ==
    published \o [ i \in 1 .. (Len(q2) - Len(q)) |->
                     [ kind |-> q2[Len(q) + i].kind, id |-> q2[Len(q) + i].id ] ]

\* C5 mutant: the isinstance test never recognises the marker
IsModelFailureNever(m) == FALSE

\* on_submit: isinstance(result, ModelFailure)
IsModelFailure(m) == m.kind = "ModelFailure"

\* ----------------------------------------------------------- main, start-up

\* C7 mutant: only a missing accelerator is refused
GpuCheckFailsBelowOne(n) == n < 1

\* main: if args.num_gpus != 1: raise NotImplementedError
GpuCheckFails(n) == n # 1

\* C3 mutant: the barrier is created for the workers only
BarrierPartiesWorkersOnly(n) == n

\* main: mp.Barrier(args.num_gpus + 1)
BarrierParties(n) == n + 1

\* Barrier.wait(): the caller that completes the party count releases everyone
BarrierTrips == mp_barrier.n_waiting + 1 = mp_barrier.parties

\* the workers' positions after a release
ReleasedWorkers == [ r \in Ranks |-> IF wpc[r] = "in_barrier" THEN "idle" ELSE wpc[r] ]

serving_unchanged ==
    /\ UNCHANGED << cpc, cargs, cresult, cid, nextId, published, cur >>
    /\ UNCHANGED detail_vars

\* main: the parser is built and parse_known_args returns args
main_parse_args ==
    /\ mainPc = "parse_args"
    /\ \E n \in 0 .. MaxGpus : num_gpus' = n
    /\ parser' = main_parser
    /\ mainPc' = "check_num_gpus"
    /\ UNCHANGED << spawn_i, processes, worker_resp, request_queues,
                    response_queue, mp_barrier, wpc >>
    /\ serving_unchanged

\* main: the num_gpus check
main_check_num_gpus ==
    /\ mainPc = "check_num_gpus"
    /\ mainPc' = IF GpuCheckFails(num_gpus) THEN "NotImplementedError" ELSE "create_ipc"
    /\ UNCHANGED << num_gpus, parser, spawn_i, processes, worker_resp,
                    request_queues, response_queue, mp_barrier, wpc >>
    /\ serving_unchanged

\* main: find_free_port, the empty lists, response_queue and mp_barrier
main_create_ipc ==
    /\ mainPc = "create_ipc"
    /\ response_queue' = [ made |-> TRUE, q |-> << >> ]
    /\ mp_barrier' = [ made |-> TRUE, parties |-> BarrierParties(num_gpus), n_waiting |-> 0 ]
    /\ spawn_i' = 0
    /\ mainPc' = "spawn"
    /\ UNCHANGED << num_gpus, parser, processes, worker_resp, request_queues, wpc >>
    /\ serving_unchanged

\* main: one iteration of  for i in range(args.num_gpus), or the loop's end
main_spawn ==
    /\ mainPc = "spawn"
    /\ IF spawn_i < num_gpus
       THEN /\ request_queues' = Append(request_queues, << >>)
            /\ processes' = processes \cup { spawn_i }
            /\ worker_resp' = [ worker_resp EXCEPT
                                  ![spawn_i] = IF spawn_i = 0 THEN "response_queue" ELSE "None" ]
            /\ wpc' = [ wpc EXCEPT ![spawn_i] = "load" ]
            /\ spawn_i' = spawn_i + 1
            /\ mainPc' = mainPc
       ELSE /\ mainPc' = "build_ui"
            /\ UNCHANGED << request_queues, processes, worker_resp, wpc, spawn_i >>
    /\ UNCHANGED << num_gpus, parser, response_queue, mp_barrier >>
    /\ serving_unchanged

\* main: the gr.Blocks section; on_submit is registered on the Submit button
main_build_ui ==
    /\ mainPc = "build_ui"
    /\ mainPc' = "barrier_wait"
    /\ UNCHANGED << num_gpus, parser, spawn_i, processes, worker_resp,
                    request_queues, response_queue, mp_barrier, wpc >>
    /\ serving_unchanged

\* main: mp_barrier.wait()
main_barrier_wait ==
    /\ mainPc = "barrier_wait"
    /\ IF BarrierTrips
       THEN /\ mainPc' = "launch"
            /\ wpc' = ReleasedWorkers
            /\ mp_barrier' = [ mp_barrier EXCEPT !.n_waiting = 0 ]
       ELSE /\ mainPc' = "in_barrier"
            /\ mp_barrier' = [ mp_barrier EXCEPT !.n_waiting = @ + 1 ]
            /\ UNCHANGED wpc
    /\ UNCHANGED << num_gpus, parser, spawn_i, processes, worker_resp,
                    request_queues, response_queue >>
    /\ serving_unchanged

\* main: demo.queue().launch(...); from here the UI accepts submissions
main_launch ==
    /\ mainPc = "launch"
    /\ mainPc' = "serving"
    /\ UNCHANGED << num_gpus, parser, spawn_i, processes, worker_resp,
                    request_queues, response_queue, mp_barrier, wpc >>
    /\ serving_unchanged

\* ------------------------------------------------------- model_main, worker

front_unchanged ==
    /\ UNCHANGED << num_gpus, parser, spawn_i, processes, worker_resp >>
    /\ UNCHANGED detail_vars

callers_unchanged ==
    UNCHANGED << cpc, cargs, cresult, cid, nextId >>

\* model_main up to the barrier: process group, language model, tokenizer, VAE,
\* DiT and checkpoint.  Loading raises when num_gpus > 1, and may raise in any
\* of the library calls or in the model_parallel_size assertion.
model_main_load(r) ==
    /\ wpc[r] = "load"
    /\ \E ok \in BOOLEAN :
         wpc' = [ wpc EXCEPT ![r] = IF ok /\ ~(num_gpus > 1) THEN "barrier_wait"
                                                          ELSE "terminated" ]
    /\ UNCHANGED << mainPc, request_queues, response_queue, mp_barrier, cur, published >>
    /\ front_unchanged
    /\ callers_unchanged

\* model_main: mp_barrier.wait()
model_main_barrier_wait(r) ==
    /\ wpc[r] = "barrier_wait"
    /\ IF BarrierTrips
       THEN /\ wpc' = [ ReleasedWorkers EXCEPT ![r] = "idle" ]
            /\ mainPc' = IF mainPc = "in_barrier" THEN "launch" ELSE mainPc
            /\ mp_barrier' = [ mp_barrier EXCEPT !.n_waiting = 0 ]
       ELSE /\ wpc' = [ wpc EXCEPT ![r] = "in_barrier" ]
            /\ mp_barrier' = [ mp_barrier EXCEPT !.n_waiting = @ + 1 ]
            /\ UNCHANGED mainPc
    /\ UNCHANGED << request_queues, response_queue, cur, published >>
    /\ front_unchanged
    /\ callers_unchanged

\* the stages of one request, in the order of the statements of the try block
Stages ==
    << "configure_transport", "generate_conditioning", "run_solver", "decode",
       "publish_result" >>

StageSet == { Stages[i] : i \in 1 .. Len(Stages) }

\* C4 mutant: the solver's output is published without being decoded
NextStageSkipsDecode(s) ==
    IF s = "run_solver" THEN "publish_result"
    ELSE Stages[IndexOf(Stages, s) + 1]

\* the statement group that follows stage s in the try block
NextStage(s) == Stages[IndexOf(Stages, s) + 1]

\* C1 mutant: the exception is not caught and ends the worker
ExceptTargetUncaught == "terminated"

\* where control goes when a statement of the try block raises: except Exception
ExceptTarget == "except"

\* C6 mutant: the handler only logs and publishes nothing
PutFailureNothing(q, req) == q

\* except Exception: response_queue.put(ModelFailure())
PutFailure(q, req) == Append(q, ModelFailure(req))

\* model_main: request_queue.get() and the unpacking of the tuple; the first
\* statement of the try block is next
model_main_get(r) ==
    /\ wpc[r] = "idle"
    /\ request_queues[r + 1] # << >>
    /\ LET m == Head(request_queues[r + 1]) IN
         IF Len(m.args) = Len(UnpackList)
         THEN /\ cur' = [ cur EXCEPT ![r] =
                            << [ fields |-> Unpack(m.args), id |-> m.id, ui |-> m.ui ] >> ]
              /\ wpc' = [ wpc EXCEPT ![r] = Stages[1] ]
         ELSE /\ wpc' = [ wpc EXCEPT ![r] = "terminated" ]
              /\ UNCHANGED cur
    /\ request_queues' = [ request_queues EXCEPT ![r + 1] = Tail(@) ]
    /\ UNCHANGED << mainPc, response_queue, mp_barrier, published >>
    /\ front_unchanged
    /\ callers_unchanged

\* model_main: the statements of one stage ran to their end
\*   configure_transport    create_transport, Sampler, sample_ode
\*   generate_conditioning  resolution, noise, tokens, cap_feats, model_kwargs
\*   run_solver             sample_fn(...)[-1], samples[:1]
\*   decode                 vae.decode, clamp, to_pil_image
model_main_stage(r) ==
    /\ wpc[r] \in StageSet \ { "publish_result" }
    /\ wpc' = [ wpc EXCEPT ![r] = NextStage(wpc[r]) ]
    /\ UNCHANGED << mainPc, request_queues, response_queue, mp_barrier, cur, published >>
    /\ front_unchanged
    /\ callers_unchanged

\* model_main: a statement of the current stage raised an Exception
model_main_raise(r) ==
    /\ wpc[r] \in StageSet
    /\ wpc' = [ wpc EXCEPT ![r] = ExceptTarget ]
    /\ UNCHANGED << mainPc, request_queues, response_queue, mp_barrier, cur, published >>
    /\ front_unchanged
    /\ callers_unchanged

\* model_main: if response_queue is not None: response_queue.put(img)
model_main_publish(r) ==
    /\ wpc[r] = "publish_result"
    /\ IF worker_resp[r] # "None"
       THEN /\ response_queue' = [ response_queue EXCEPT !.q = Append(@, Image(cur[r][1])) ]
            /\ published' = Logged(response_queue.q, response_queue'.q)
       ELSE UNCHANGED << response_queue, published >>
    /\ wpc' = [ wpc EXCEPT ![r] = "idle" ]
    /\ cur' = [ cur EXCEPT ![r] = << >> ]
    /\ UNCHANGED << mainPc, request_queues, mp_barrier >>
    /\ front_unchanged
    /\ callers_unchanged

\* model_main: the except block; response_queue.put on None raises out of it
model_main_except(r) ==
    /\ wpc[r] = "except"
    /\ IF worker_resp[r] # "None"
       THEN /\ response_queue' = [ response_queue EXCEPT !.q = PutFailure(@, cur[r][1]) ]
            /\ published' = Logged(response_queue.q, response_queue'.q)
            /\ wpc' = [ wpc EXCEPT ![r] = "idle" ]
       ELSE /\ wpc' = [ wpc EXCEPT ![r] = "terminated" ]
            /\ UNCHANGED << response_queue, published >>
    /\ cur' = [ cur EXCEPT ![r] = << >> ]
    /\ UNCHANGED << mainPc, request_queues, mp_barrier >>
    /\ front_unchanged
    /\ callers_unchanged

\* ------------------------------------------------------------------ on_submit

worker_unchanged ==
    UNCHANGED << mainPc, mp_barrier, wpc, cur, published >>

\* on_submit: for q in request_queues: q.put(args)
on_submit_put(c) ==
    /\ mainPc = "serving"
    /\ cpc[c] = "ready"
    /\ nextId <= MaxRequests
    /\ \E ui \in UIStates :
         /\ cargs' = [ cargs EXCEPT ![c] = << CallArgs(ui) >> ]
         /\ request_queues' =
              [ k \in 1 .. Len(request_queues) |->
                  Append(request_queues[k], RequestMsg(CallArgs(ui), nextId, ui)) ]
    /\ cid' = [ cid EXCEPT ![c] = nextId ]
    /\ nextId' = nextId + 1
    /\ cpc' = [ cpc EXCEPT ![c] = "get" ]
    /\ UNCHANGED << cresult, response_queue >>
    /\ front_unchanged
    /\ worker_unchanged

\* on_submit: result = response_queue.get(), then raise RuntimeError or return
on_submit_get(c) ==
    /\ cpc[c] = "get"
    /\ response_queue.q # << >>
    /\ LET result == Head(response_queue.q) IN
         /\ cresult' = [ cresult EXCEPT ![c] = << result >> ]
         /\ cpc' = [ cpc EXCEPT ![c] = IF IsModelFailure(result) THEN "RuntimeError"
                                                                  ELSE "returned" ]
    /\ response_queue' = [ response_queue EXCEPT !.q = Tail(@) ]
    /\ UNCHANGED << cargs, cid, nextId, request_queues >>
    /\ front_unchanged
    /\ worker_unchanged

\* the UI shows the image or the error; the session may press Submit again
on_submit_done(c) ==
    /\ cpc[c] \in { "returned", "RuntimeError" }
    /\ cpc' = [ cpc EXCEPT ![c] = "ready" ]
    /\ cargs' = [ cargs EXCEPT ![c] = << >> ]
    /\ cresult' = [ cresult EXCEPT ![c] = << >> ]
    /\ cid' = [ cid EXCEPT ![c] = 0 ]
    /\ UNCHANGED << nextId, request_queues, response_queue >>
    /\ front_unchanged
    /\ worker_unchanged

\* -------------------------------------------------------------- specification

ProgramInit ==
    /\ mainPc = "parse_args"
    /\ num_gpus = 1
    /\ parser = { }
    /\ spawn_i = 0
    /\ processes = { }
    /\ worker_resp = [ r \in Ranks |-> "unset" ]
    /\ request_queues = << >>
    /\ response_queue = [ made |-> FALSE, q |-> << >> ]
    /\ mp_barrier = [ made |-> FALSE, parties |-> 0, n_waiting |-> 0 ]
    /\ wpc = [ r \in Ranks |-> "not_started" ]
    /\ cur = [ r \in Ranks |-> << >> ]
    /\ cpc = [ c \in Callers |-> "ready" ]
    /\ cargs = [ c \in Callers |-> << >> ]
    /\ cresult = [ c \in Callers |-> << >> ]
    /\ cid = [ c \in Callers |-> 0 ]
    /\ nextId = 1
    /\ published = << >>

\* no command line is being handled
NoCli == [ pc |-> "off", command |-> "", argv |-> { }, params |-> { }, outcome |-> "" ]

\* the locals of the try block before a request has assigned them
NoLocals ==
    [ w |-> 0, h |-> 0, latent_w |-> 0, latent_h |-> 0, rng0 |-> << >>,
      given |-> << >>, z |-> << >>, cap_tok |-> << >>, null_cap_tok |-> << >>,
      tok |-> << >>, tok_mask |-> << >>, samples |-> << >>, img |-> << >> ]

\* the statement-level views are at rest
DetailOff ==
    /\ s_pc = "off"
    /\ s_req = << >>
    /\ s_loc = NoLocals
    /\ rng = [ src |-> "default", seed |-> 0, pos |-> 0 ]
    /\ model_kwargs = << >>
    /\ train_args = [ image_size |-> 1024 ]
    /\ s_served = 0
    /\ s_resp = << >>
    /\ cli = NoCli

Init == ProgramInit /\ DetailOff

Next ==
    \/ main_parse_args
    \/ main_check_num_gpus
    \/ main_create_ipc
    \/ main_spawn
    \/ main_build_ui
    \/ main_barrier_wait
    \/ main_launch
    \/ \E r \in Ranks : model_main_load(r)
    \/ \E r \in Ranks : model_main_barrier_wait(r)
    \/ \E r \in Ranks : model_main_get(r)
    \/ \E r \in Ranks : model_main_stage(r)
    \/ \E r \in Ranks : model_main_raise(r)
    \/ \E r \in Ranks : model_main_publish(r)
    \/ \E r \in Ranks : model_main_except(r)
    \/ \E c \in Callers : on_submit_put(c)
    \/ \E c \in Callers : on_submit_get(c)
    \/ \E c \in Callers : on_submit_done(c)

Spec == Init /\ [][Next]_vars

\* Every stage terminates (it completes or raises), a blocked queue read
\* returns once a message is there, and a pressed Submit need not come.
WorkerStep(r) ==
    \/ model_main_get(r)
    \/ model_main_stage(r)
    \/ model_main_raise(r)
    \/ model_main_publish(r)
    \/ model_main_except(r)

FairSpec ==
    /\ Spec
    /\ \A r \in Ranks : WF_vars(WorkerStep(r))
    /\ \A c \in Callers : WF_vars(on_submit_get(c))


\* ------------------------------------------- the loop body, statement by statement

\* number of requests the worker takes in a run of SamplerSpec
MaxServed == 2

\* Strings that the code takes apart are sequences of one-character strings.

\* res_choices of main: the choices of the Resolution dropdown
res_choices ==
    { << "1", "0", "2", "4", "x", "1", "0", "2", "4" >>,
      << "5", "1", "2", "x", "2", "0", "4", "8" >>,
      << "2", "0", "4", "8", "x", "5", "1", "2" >>,
      << "(", "E", "x", "t", "r", "a", "p", "o", "l", "a", "t", "i", "o", "n", ")", " ", "1", "6", "6", "4", "x", "1", "6", "6", "4" >>,
      << "(", "E", "x", "t", "r", "a", "p", "o", "l", "a", "t", "i", "o", "n", ")", " ", "1", "0", "2", "4", "x", "2", "0", "4", "8" >>,
      << "(", "E", "x", "t", "r", "a", "p", "o", "l", "a", "t", "i", "o", "n", ")", " ", "2", "0", "4", "8", "x", "1", "0", "2", "4" >> }

\* other strings a client can send as resolution (gradio's API takes any string)
OtherResolutions ==
    { << >>,
      << "1", "0", "2", "4" >>,
      << "8", "x" >>,
      << "x", "8" >>,
      << "8", "x", "8", "x", "8" >>,
      << "a", "x", "b" >>,
      << "1", "6", "x", "2", "4", " " >>,
      << "-", "8", "x", "1", "6" >>,
      << "+", "8", "x", "1", "6" >>,
      << "8", " ", "1", "6", "x", "2", "4" >>,
      << "0", "x", "0" >>,
      << "9", "x", "1", "7" >>,
      << "-", "1", "x", "1", "6" >> }

Digits == << "0", "1", "2", "3", "4", "5", "6", "7", "8", "9" >>

IsDigit(c) == \E i \in 1 .. Len(Digits) : Digits[i] = c

DigitValue(c) == (CHOOSE i \in 1 .. Len(Digits) : Digits[i] = c) - 1

RECURSIVE SplitFrom(_, _, _, _)
\* the pieces of s from position i on, piece being the piece read so far
SplitFrom(s, sep, i, piece) ==
    IF i > Len(s) THEN << piece >>
    ELSE IF s[i] = sep THEN << piece >> \o SplitFrom(s, sep, i + 1, << >>)
    ELSE SplitFrom(s, sep, i + 1, Append(piece, s[i]))

\* str.split(sep) with a one-character separator: empty pieces are kept
str_split(s, sep) == SplitFrom(s, sep, 1, << >>)

\* list[-1]
Last(list) == list[Len(list)]

RECURSIVE DecimalValue(_)
DecimalValue(d) ==
    IF d = << >> THEN 0
    ELSE 10 * DecimalValue(SubSeq(d, 1, Len(d) - 1)) + DigitValue(d[Len(d)])

\* the literal without its sign
Unsigned(t) == IF t # << >> /\ t[1] \in { "+", "-" } THEN Tail(t) ELSE t

\* int(str) returns for an optional sign followed by decimal digits and raises
\* ValueError otherwise (the strings here hold no underscore and no white
\* space other than the blank that split(" ") removes)
int_accepts(t) ==
    /\ Unsigned(t) # << >>
    /\ \A i \in 1 .. Len(Unsigned(t)) : IsDigit(Unsigned(t)[i])

\* int(str) of an accepted literal
int_str(t) ==
    IF t[1] = "-" THEN 0 - DecimalValue(Unsigned(t)) ELSE DecimalValue(Unsigned(t))

\* int(seed): the Seed slider has step 1, its values are whole numbers
int_seed(seed) == seed

\* torch.random.manual_seed(seed): the generator restarts from the seed
manual_seed(seed) == [ src |-> "manual", seed |-> seed, pos |-> 0 ]

\* number of elements of a tensor of this shape
Numel(shape) == shape[1] * shape[2] * shape[3] * shape[4]

\* torch.randn(shape) with the generator in state g: the values drawn are
\* fixed by the state of the generator and by the shape
randn(g, shape) == [ gen |-> g, shape |-> shape ]

\* the generator after Numel(shape) values have been drawn
Advanced(g, shape) == [ g EXCEPT !.pos = @ + Numel(shape) ]

\* C12 mutant: the generator is reseeded only by the first request
ReseedsOnlyOnce(seed) == int_seed(seed) # 0 /\ rng.src = "default"

\* if int(seed) != 0
Reseeds(seed) == int_seed(seed) # 0

\* C13 mutant: the noise is drawn width first
NoiseShapeWidthFirst(latent_w, latent_h) == << 1, 4, latent_w, latent_h >>

\* [1, 4, latent_h, latent_w]
NoiseShape(latent_w, latent_h) == << 1, 4, latent_h, latent_w >>

\* z.repeat(2, 1, 1, 1): a batch of two rows holding the same values
repeat2(z) == << z[1], z[1] >>

\* the captions, and tokenizer.encode of each (bos and eos are added)
SamplerCaps == { "", "A humanoid eagle", "A fluffy mouse holding a watermelon" }

tokenizer_encode(cap) ==
    CASE cap = "" -> << 1, 2 >>
      [] cap = "A humanoid eagle" -> << 1, 319, 5199, 2 >>
      [] cap = "A fluffy mouse holding a watermelon" -> << 1, 319, 17422, 11187, 0, 2 >>

\* a request with the controls that the claims do not vary at their initial
\* values
RequestsWith(caps, resolutions, seeds, toggles) ==
    [ cap : caps, resolution : resolutions,
      num_sampling_steps : { 60 }, cfg_scale : { 4 }, solver : { "euler" },
      t_shift : { 4 }, seed : seeds,
      ntk_scaling : toggles, proportional_attn : toggles ]

Res1024x1024 == << "1", "0", "2", "4", "x", "1", "0", "2", "4" >>
Res512x2048 == << "5", "1", "2", "x", "2", "0", "4", "8" >>
ResExtrapolation1664 ==
    << "(", "E", "x", "t", "r", "a", "p", "o", "l", "a", "t", "i", "o", "n", ")", " ",
       "1", "6", "6", "4", "x", "1", "6", "6", "4" >>
ResSample == { Res1024x1024, Res512x2048, ResExtrapolation1664 }

\* The requests the worker is given: every resolution string, every seed,
\* every setting of the two toggles and every caption, each varied with the
\* other controls at their initial values.
SamplerRequests ==
    RequestsWith({ "" }, res_choices \cup OtherResolutions, { 1 }, { TRUE })
        \cup RequestsWith({ "" }, ResSample, { 0, 1, 7 }, { TRUE })
        \cup RequestsWith({ "" }, ResSample, { 1 }, BOOLEAN)
        \cup RequestsWith(SamplerCaps, { Res1024x1024 }, { 1 }, { TRUE })

program_unchanged == UNCHANGED program_vars

\* the worker has passed the barrier with train_args loaded from the checkpoint
SamplerInit ==
    /\ ProgramInit
    /\ s_pc = "get"
    /\ s_req = << >>
    /\ s_loc = NoLocals
    /\ rng = [ src |-> "default", seed |-> 0, pos |-> 0 ]
    /\ model_kwargs = << >>
    /\ train_args \in [ image_size : { 256, 1024 } ]
    /\ s_served = 0
    /\ s_resp = << >>
    /\ cli = NoCli

\* request_queue.get() and the unpacking; the locals of the previous iteration
\* are dead (each is assigned before it is read) except model_kwargs and the
\* generator; rng0 and given are history
sampler_get ==
    /\ s_pc = "get"
    /\ s_served < MaxServed
    /\ \E req \in SamplerRequests :
         /\ s_req' = << req >>
         /\ s_loc' = [ NoLocals EXCEPT !.rng0 = << rng >>, !.given = << req >> ]
    /\ s_served' = s_served + 1
    /\ s_resp' = << >>
    /\ s_pc' = "configure_transport"
    /\ UNCHANGED << rng, model_kwargs, train_args, cli >>
    /\ program_unchanged

\* create_transport, Sampler and sample_ode
sampler_configure ==
    /\ s_pc = "configure_transport"
    /\ s_pc' = "resolution"
    /\ UNCHANGED << s_req, s_loc, rng, model_kwargs, train_args, s_served, s_resp, cli >>
    /\ program_unchanged

\* resolution = resolution.split(" ")[-1]; w, h = resolution.split("x");
\* w, h = int(w), int(h); latent_w, latent_h = w // 8, h // 8
sampler_resolution ==
    /\ s_pc = "resolution"
    /\ LET token == Last(str_split(s_req[1].resolution, " "))
           parts == str_split(token, "x")
       IN  /\ s_req' = << [ s_req[1] EXCEPT !.resolution = token ] >>
           /\ IF Len(parts) = 2 /\ int_accepts(parts[1]) /\ int_accepts(parts[2])
              THEN /\ s_loc' = [ s_loc EXCEPT !.w = int_str(parts[1]),
                                              !.h = int_str(parts[2]),
                                              !.latent_w = int_str(parts[1]) \div 8,
                                              !.latent_h = int_str(parts[2]) \div 8 ]
                   /\ s_pc' = "noise"
              ELSE /\ s_pc' = "except"
                   /\ UNCHANGED s_loc
    /\ UNCHANGED << rng, model_kwargs, train_args, s_served, s_resp, cli >>
    /\ program_unchanged

\* if int(seed) != 0: torch.random.manual_seed(int(seed));
\* z = torch.randn([1, 4, latent_h, latent_w]); z = z.repeat(2, 1, 1, 1)
\* (randn raises for a negative dimension)
sampler_noise ==
    /\ s_pc = "noise"
    /\ LET g == IF Reseeds(s_req[1].seed) THEN manual_seed(int_seed(s_req[1].seed)) ELSE rng
           shape == NoiseShape(s_loc.latent_w, s_loc.latent_h)
       IN  IF shape[3] >= 0 /\ shape[4] >= 0
           THEN /\ s_loc' = [ s_loc EXCEPT !.z = repeat2(<< randn(g, shape) >>) ]
                /\ rng' = Advanced(g, shape)
                /\ s_pc' = "tokens"
           ELSE /\ rng' = g
                /\ s_pc' = "except"
                /\ UNCHANGED s_loc
    /\ UNCHANGED << s_req, model_kwargs, train_args, s_served, s_resp, cli >>
    /\ program_unchanged

\* a row of tok: the tokens, then zeros up to n
TokRow(t, n) == [ j \in 1 .. n |-> IF j <= Len(t) THEN t[j] ELSE 0 ]

\* a row of tok_mask: True on the first len(t) positions
MaskRow(t, n) == [ j \in 1 .. n |-> j <= Len(t) ]

Max(a, b) == IF a >= b THEN a ELSE b

\* cap_tok, null_cap_tok, tok, tok_mask (cap_feats is the decoder's output for
\* tok, it is kept as tok)
sampler_tokens ==
    /\ s_pc = "tokens"
    /\ LET cap_tok == tokenizer_encode(s_req[1].cap)
           null_cap_tok == tokenizer_encode("")
           n == Max(Len(cap_tok), Len(null_cap_tok))
       IN  s_loc' = [ s_loc EXCEPT
                        !.cap_tok = cap_tok,
                        !.null_cap_tok = null_cap_tok,
                        !.tok = << TokRow(cap_tok, n), TokRow(null_cap_tok, n) >>,
                        !.tok_mask = << MaskRow(cap_tok, n), MaskRow(null_cap_tok, n) >> ]
    /\ s_pc' = "kwargs"
    /\ UNCHANGED << s_req, rng, model_kwargs, train_args, s_served, s_resp, cli >>
    /\ program_unchanged

\* C14 mutant: the arguments of the previous request are updated in place
kwargs_updated(old, cap_feats, cap_mask, cfg_scale) ==
    [ cap_feats |-> cap_feats, cap_mask |-> cap_mask, cfg_scale |-> cfg_scale ] @@ old

\* model_kwargs = dict(cap_feats=..., cap_mask=..., cfg_scale=...): a new dict
kwargs_new(old, cap_feats, cap_mask, cfg_scale) ==
    [ cap_feats |-> cap_feats, cap_mask |-> cap_mask, cfg_scale |-> cfg_scale ]

\* (train_args.image_size // 16) ** 2 + (train_args.image_size // 16) * 2
base_seqlen(image_size) ==
    (image_size \div 16) * (image_size \div 16) + (image_size \div 16) * 2

\* ((w // 16) * (h // 16)) / ((train_args.image_size // 16) ** 2): the
\* quotient, kept as numerator and denominator (exact in floating point for
\* the image sizes here, whose divisor is a power of two)
ntk_factor(w, h, image_size) ==
    [ num |-> (w \div 16) * (h \div 16),
      den |-> (image_size \div 16) * (image_size \div 16) ]

\* model_kwargs and the two toggles (the division raises for a zero divisor)
sampler_kwargs ==
    /\ s_pc = "kwargs"
    /\ LET base == kwargs_new(model_kwargs, s_loc.tok, s_loc.tok_mask, s_req[1].cfg_scale)
           prop == IF s_req[1].proportional_attn
                   THEN [ proportional_attn |-> TRUE,
                          base_seqlen |-> base_seqlen(train_args.image_size) ] @@ base
                   ELSE base
       IN  IF s_req[1].ntk_scaling
           THEN IF ntk_factor(s_loc.w, s_loc.h, train_args.image_size).den = 0
                THEN /\ model_kwargs' = prop
                     /\ s_pc' = "except"
                ELSE /\ model_kwargs' =
                          [ ntk_factor |->
                              ntk_factor(s_loc.w, s_loc.h, train_args.image_size) ] @@ prop
                     /\ s_pc' = "run_solver"
           ELSE /\ model_kwargs' = prop
                /\ s_pc' = "run_solver"
    /\ UNCHANGED << s_req, s_loc, rng, train_args, s_served, s_resp, cli >>
    /\ program_unchanged

\* the final state of the solver's trajectory: one row per row of z, each
\* fixed by its start, its conditioning and the arguments
sample_fn_final(z, kwargs) ==
    [ i \in 1 .. Len(z) |->
        [ row |-> i - 1, start |-> z[i],
          cap |-> kwargs.cap_feats[i], mask |-> kwargs.cap_mask[i] ] ]

\* C15 mutant: the last row is kept instead of the first
KeepLastRow(samples) == << samples[Len(samples)] >>

\* samples[:1]
KeepFirstRow(samples) == SubSeq(samples, 1, 1)

\* samples = sample_fn(z, model.forward_with_cfg, **model_kwargs)[-1];
\* samples = samples[:1]
sampler_solve ==
    /\ s_pc = "run_solver"
    /\ s_loc' = [ s_loc EXCEPT !.samples = KeepFirstRow(sample_fn_final(s_loc.z, model_kwargs)) ]
    /\ s_pc' = "decode"
    /\ UNCHANGED << s_req, rng, model_kwargs, train_args, s_served, s_resp, cli >>
    /\ program_unchanged

\* vae.decode(samples / factor).sample, rescaling, to_pil_image(samples[0])
sampler_decode ==
    /\ s_pc = "decode"
    /\ s_loc' = [ s_loc EXCEPT !.img = << [ kind |-> "image", latent |-> s_loc.samples[1] ] >> ]
    /\ s_pc' = "publish_result"
    /\ UNCHANGED << s_req, rng, model_kwargs, train_args, s_served, s_resp, cli >>
    /\ program_unchanged

\* response_queue.put(img) (the worker of rank 0 holds the queue)
sampler_publish ==
    /\ s_pc = "publish_result"
    /\ s_resp' = s_loc.img
    /\ s_pc' = "get"
    /\ UNCHANGED << s_req, s_loc, rng, model_kwargs, train_args, s_served, cli >>
    /\ program_unchanged

\* except Exception: response_queue.put(ModelFailure())
sampler_except ==
    /\ s_pc = "except"
    /\ s_resp' = << [ kind |-> "ModelFailure" ] >>
    /\ s_pc' = "get"
    /\ UNCHANGED << s_req, s_loc, rng, model_kwargs, train_args, s_served, cli >>
    /\ program_unchanged

SamplerNext ==
    \/ sampler_get
    \/ sampler_configure
    \/ sampler_resolution
    \/ sampler_noise
    \/ sampler_tokens
    \/ sampler_kwargs
    \/ sampler_solve
    \/ sampler_decode
    \/ sampler_publish
    \/ sampler_except

SamplerSpec == SamplerInit /\ [][SamplerNext]_vars

\* ------------------------------------------------------------------- claims

\* the worker holds a dequeued request
Busy(r) == wpc[r] \in StageSet \cup { "except" }

\* the worker has passed mp_barrier.wait()
PastBarrier(r) == wpc[r] = "idle" \/ Busy(r)

\* the order of the stages as the specification states it
StatedSuccessor(s) ==
    CASE s = "idle" -> "configure_transport"
      [] s = "configure_transport" -> "generate_conditioning"
      [] s = "generate_conditioning" -> "run_solver"
      [] s = "run_solver" -> "decode"
      [] s = "decode" -> "publish_result"
      [] s = "publish_result" -> "idle"
      [] OTHER -> "none"

\* the step puts exactly one message of this kind, for this call, on the
\* response queue
PutsOne(kind, id) ==
    /\ Len(response_queue'.q) = Len(response_queue.q) + 1
    /\ response_queue'.q[Len(response_queue'.q)].kind = kind
    /\ response_queue'.q[Len(response_queue'.q)].id = id
    /\ \A i \in 1 .. Len(response_queue.q) :
         /\ response_queue'.q[i].kind = response_queue.q[i].kind
         /\ response_queue'.q[i].id = response_queue.q[i].id

\* C1: an exception raised at any stage of a dequeued request is caught inside
\* the loop: control goes to the handler, the handler puts one ModelFailure
\* marker on the response queue, and the worker does not terminate but goes
\* back to blocking on request_queue.get(), where a queued request is served.
C1_FailureCaught ==
    [][ \A r \in Ranks :
          /\ Busy(r) => wpc'[r] # "terminated"
          /\ ( wpc[r] \in StageSet /\ wpc'[r] \notin { wpc[r], StatedSuccessor(wpc[r]) } )
                => ( wpc'[r] = "except" /\ cur'[r] = cur[r]
                     /\ response_queue' = response_queue )
          /\ ( wpc[r] = "except" /\ wpc'[r] # "except" )
                => ( wpc'[r] = "idle" /\ cur'[r] = << >>
                     /\ PutsOne("ModelFailure", cur[r][1].id) )
          /\ ( wpc'[r] = "idle" /\ request_queues'[r + 1] # << >> )
                => ( ENABLED model_main_get(r) )'
      ]_vars

\* C1 witness: a request failed, its marker was published, and a request
\* submitted later was rendered and returned to its caller
C1_Witness ==
    \E c \in Callers : \E i \in 1 .. Len(published) :
        /\ cpc[c] = "returned"
        /\ published[i].kind = "ModelFailure"
        /\ published[i].id < cresult[c][1].id

\* requests put on worker r's queue whose response the front end has not taken
InFlight(r) ==
    Len(request_queues[r + 1]) + (IF cur[r] # << >> THEN 1 ELSE 0)
        + (IF worker_resp[r] = "response_queue" THEN Len(response_queue.q) ELSE 0)

\* C2: at most one request per worker is in flight at any time, for any number
\* of on_submit calls running concurrently.
C2_AtMostOneInFlight == \A r \in processes : InFlight(r) <= 1

\* C3: the barrier has num_gpus + 1 parties; the front end passes it (and so
\* launches the UI, and takes submissions) only when every worker has loaded
\* its model and reached the barrier; no worker passes it (and so dequeues)
\* before the front end has reached it.
C3_BarrierSync ==
    /\ mp_barrier.made => mp_barrier.parties = num_gpus + 1
    /\ mainPc \in { "launch", "serving" } =>
          \A r \in 0 .. (num_gpus - 1) : PastBarrier(r)
    /\ nextId > 1 => mainPc = "serving"
    /\ \A r \in Ranks : PastBarrier(r) => mainPc \in { "launch", "serving" }

\* C3 witness: the UI is up and the worker has dequeued a request
C3_Witness == mainPc = "serving" /\ cur[0] # << >> /\ wpc[0] = "configure_transport"

\* C4: the worker's position only moves along idle -> configure_transport ->
\* generate_conditioning -> run_solver -> decode -> publish_result -> idle, or
\* from a stage to the handler and from the handler to idle; it dequeues only
\* when idle, and it returns to idle only by putting the result of the current
\* request (image or failure marker) on the response queue.
C4_StageOrder ==
    [][ \A r \in Ranks :
          /\ ( PastBarrier(r) /\ wpc'[r] # wpc[r] ) =>
                \/ wpc'[r] = StatedSuccessor(wpc[r])
                \/ wpc[r] \in StageSet /\ wpc'[r] = "except"
                \/ wpc[r] = "except" /\ wpc'[r] = "idle"
          /\ ( r \in processes /\ request_queues'[r + 1] # request_queues[r + 1]
               /\ Len(request_queues'[r + 1]) < Len(request_queues[r + 1]) ) =>
                ( wpc[r] = "idle" /\ cur[r] = << >> /\ wpc'[r] = "configure_transport"
                  /\ cur'[r] # << >> /\ cur'[r][1].id = Head(request_queues[r + 1]).id )
          /\ ( wpc[r] = "publish_result" /\ wpc'[r] = "idle" ) =>
                ( PutsOne("image", cur[r][1].id) /\ cur'[r] = << >> )
          /\ ( wpc[r] = "except" /\ wpc'[r] = "idle" ) =>
                ( PutsOne("ModelFailure", cur[r][1].id) /\ cur'[r] = << >> )
          /\ ( Busy(r) /\ Busy(r)' ) => cur'[r] = cur[r]
      ]_vars

\* C4 witness: a request failed and its marker was published; the worker has
\* taken the next request through the stages up to decode
C4_Witness ==
    /\ wpc[0] = "decode"
    /\ \E j \in 1 .. Len(published) :
         published[j].kind = "ModelFailure" /\ published[j].id < cur[0][1].id

\* C5: on_submit raises RuntimeError exactly when the message it takes from the
\* response queue is a ModelFailure, and otherwise returns that message
\* unchanged; it has put its argument tuple on every worker's request queue
\* before it reads the response.
C5_SubmitOutcome ==
    [][ \A c \in Callers :
          /\ ( cpc[c] = "get" /\ cpc'[c] # "get" ) =>
                /\ response_queue.q # << >>
                /\ ( cpc'[c] = "RuntimeError" <=> Head(response_queue.q).kind = "ModelFailure" )
                /\ ( cpc'[c] = "returned" <=> Head(response_queue.q).kind = "image" )
                /\ cresult'[c] = << Head(response_queue.q) >>
                /\ response_queue'.q = Tail(response_queue.q)
          /\ ( cpc[c] = "ready" /\ cpc'[c] # "ready" ) =>
                /\ cpc'[c] = "get"
                /\ cargs'[c] # << >>
                /\ Len(request_queues') = num_gpus
                /\ \A k \in 1 .. Len(request_queues') :
                     /\ Len(request_queues'[k]) = Len(request_queues[k]) + 1
                     /\ request_queues'[k][Len(request_queues'[k])].args = cargs'[c][1]
                /\ response_queue' = response_queue
          /\ cpc'[c] \in { "returned", "RuntimeError" } => cpc[c] \in { cpc'[c], "get" }
      ]_vars

\* C5 witness: one call has raised RuntimeError and another has returned an image
C5_Witness ==
    \E c1, c2 \in Callers :
        /\ cpc[c1] = "RuntimeError" /\ cresult[c1][1].kind = "ModelFailure"
        /\ cpc[c2] = "returned" /\ cresult[c2][1].kind = "image"

\* the calls whose request is still queued or being processed
Pending ==
    { request_queues[1][i].id : i \in 1 .. Len(request_queues[1]) }
        \cup (IF cur[0] = << >> THEN { } ELSE { cur[0][1].id })

\* the number of messages ever put on the response queue for call id
PublishedFor(id) == Cardinality({ i \in 1 .. Len(published) : published[i].id = id })

\* every call's request has no response while it is pending and exactly one
\* response, an image or a marker, from then on
C6_OneResponse ==
    processes # { } =>
        \A id \in 1 .. (nextId - 1) :
            /\ PublishedFor(id) = (IF id \in Pending THEN 0 ELSE 1)
            /\ \A i \in 1 .. Len(published) :
                 published[i].kind \in { "image", "ModelFailure" }

\* C6: for every request put on the worker's request queue exactly one message
\* is put on the response queue, an image or a failure marker; and, every stage
\* terminating, every on_submit call that waits for its response eventually
\* returns an image or raises.
C6_ExactlyOneResponse ==
    /\ []C6_OneResponse
    /\ \A c \in Callers :
         (cpc[c] = "get") ~> (cpc[c] \in { "returned", "RuntimeError" })

\* C6 witness: two requests were put, the worker answered one with an image
\* and one with a marker, and a call has taken its response
C6_Witness ==
    /\ nextId = 3
    /\ Len(published) = 2
    /\ \E i, j \in 1 .. 2 : published[i].kind = "image" /\ published[j].kind = "ModelFailure"
    /\ \E c \in Callers : cpc[c] \in { "returned", "RuntimeError" }

\* C7: for every num_gpus other than 1 main raises NotImplementedError before
\* it creates a queue or the barrier or starts a process; a worker process
\* exists only when num_gpus = 1, and then it is the one of rank 0, holding the
\* response queue.
C7_SingleGpuOnly ==
    /\ mainPc \in { "parse_args", "check_num_gpus", "NotImplementedError" } =>
          /\ ~response_queue.made /\ ~mp_barrier.made
          /\ request_queues = << >> /\ processes = { }
    /\ ( num_gpus # 1 /\ mainPc # "parse_args" ) =>
          mainPc \in { "check_num_gpus", "NotImplementedError" }
    /\ processes # { } =>
          /\ num_gpus = 1 /\ processes = { 0 }
          /\ worker_resp[0] = "response_queue"
          /\ Len(request_queues) = 1
    /\ \A r \in Ranks : wpc[r] # "not_started" <=> r \in processes
    /\ mainPc \in { "build_ui", "barrier_wait", "in_barrier", "launch", "serving" } =>
          processes = { 0 }

\* C7 witness: main has refused two accelerators
C7_Witness == mainPc = "NotImplementedError" /\ num_gpus = 2

\* a registered option p agrees with the declaration o in long name, choices
\* and default
SameDeclaration(p, o) ==
    Long(p) = Long(o) /\ p.choices = o.choices /\ p.default = o.default

\* C8 (as stated): main's parser registers every transport, ODE and SDE flag
\* with the name, choices and default that entry_point.py declares.
C8_Original ==
    mainPc # "parse_args" =>
        \A o \in transport_options \cup ode_options \cup sde_options :
            \E p \in parser : SameDeclaration(p, o)

\* C8 (amended): main's parser registers every transport and ODE flag with the
\* long name, choices and default that entry_point.py declares; the SDE flags
\* are declared, with the names, choices and defaults of entry_point.py, by
\* parse_sde_args, which main does not call: none of them is registered.
C8_Amended ==
    mainPc # "parse_args" =>
        /\ \A o \in transport_options \cup ode_options :
              \E p \in parser : SameDeclaration(p, o)
        /\ \A o \in sde_options :
              /\ \A p \in parser : Long(p) # Long(o)
              /\ \E p \in parse_sde_args({ }) : SameDeclaration(p, o)
        /\ \A p \in parser \ main_options :
              \E o \in transport_options \cup ode_options : Long(p) = Long(o)

\* C8 witness: the arguments are parsed and the demo is serving
C8_Witness == mainPc = "serving" /\ parser # { }

\* C9: the request is a tuple of nine fields, and every field the worker
\* unpacks carries the value of the UI control of the same name.
C9_FieldOrder ==
    /\ \A k \in 1 .. Len(request_queues) : \A i \in 1 .. Len(request_queues[k]) :
          Len(request_queues[k][i].args) = 9
    /\ \A r \in Ranks :
          cur[r] # << >> =>
              \A n \in ControlNames : cur[r][1].fields[n] = cur[r][1].ui[n]

\* C9 witness: the worker holds a request whose two toggles differ
C9_Witness ==
    /\ cur[0] # << >>
    /\ cur[0][1].fields.ntk_scaling # cur[0][1].fields.proportional_attn
    /\ cur[0][1].fields.cap = ""

\* C10: every on_submit call gets the message the worker produced for the
\* request that same call put.
C10_OwnResult ==
    \A c \in Callers :
        cpc[c] \in { "returned", "RuntimeError" } => cresult[c][1].id = cid[c]

\* C11: start-up always terminates: once main waits at the barrier it is not
\* left there for ever, also when a worker raised while loading; as long as
\* main is blocked in mp_barrier.wait() a worker that can still arrive exists.
C11_StartupTerminates ==
    mainPc = "in_barrier" =>
        \E r \in processes : wpc[r] \in { "load", "barrier_wait" }

\* the request of the current iteration as it was received
Given == s_loc.given[1]

\* the noise of the current request has been drawn
NoiseDrawn == s_pc \in { "tokens", "kwargs", "run_solver", "decode", "publish_result" }

\* C12: with a nonzero seed the generator is reseeded with that seed before the
\* noise is drawn, so the noise is fixed by the seed and the shape whatever was
\* served before; with seed 0 the generator is not reseeded and the noise is
\* drawn from the state the earlier requests left.
C12_SeedDeterminism ==
    NoiseDrawn =>
        /\ Given.seed # 0 =>
              s_loc.z[1].gen = [ src |-> "manual", seed |-> Given.seed, pos |-> 0 ]
        /\ Given.seed = 0 => s_loc.z[1].gen = s_loc.rng0[1]
        /\ rng.pos = s_loc.z[1].gen.pos + Numel(s_loc.z[1].shape)

\* C12 witness: the second request has seed 0 and its noise comes from a
\* generator the first request seeded and advanced
C12_Witness ==
    /\ NoiseDrawn /\ s_served = 2 /\ Given.seed = 0
    /\ s_loc.z[1].gen.src = "manual" /\ s_loc.z[1].gen.pos > 0

\* the text after the last blank of s
LastToken(s) ==
    LET k == CHOOSE k \in 0 .. Len(s) :
                 /\ k > 0 => s[k] = " "
                 /\ \A j \in (k + 1) .. Len(s) : s[j] # " "
    IN  SubSeq(s, k + 1, Len(s))

\* t is a decimal integer, with or without a sign
IsNumber(t) ==
    \E k \in 0 .. 1 :
        /\ k = 1 => t # << >> /\ t[1] \in { "+", "-" }
        /\ Len(t) > k
        /\ \A j \in (k + 1) .. Len(t) : IsDigit(t[j])

\* the number that the digits of t denote
Magnitude(t) ==
    LET f[k \in 0 .. Len(t)] ==
            IF k = 0 THEN 0
            ELSE IF IsDigit(t[k]) THEN f[k - 1] * 10 + DigitValue(t[k]) ELSE f[k - 1]
    IN  f[Len(t)]

NumberValue(t) == IF t[1] = "-" THEN 0 - Magnitude(t) ELSE Magnitude(t)

\* the positions at which the token can be read as W x H, two sizes
FormSplits(s) ==
    { i \in 1 .. Len(LastToken(s)) :
        /\ LastToken(s)[i] = "x"
        /\ IsNumber(SubSeq(LastToken(s), 1, i - 1))
        /\ IsNumber(SubSeq(LastToken(s), i + 1, Len(LastToken(s))))
        /\ NumberValue(SubSeq(LastToken(s), 1, i - 1)) >= 0
        /\ NumberValue(SubSeq(LastToken(s), i + 1, Len(LastToken(s)))) >= 0 }

StatedWidth(s) ==
    LET i == CHOOSE i \in FormSplits(s) : TRUE
    IN  NumberValue(SubSeq(LastToken(s), 1, i - 1))

StatedHeight(s) ==
    LET i == CHOOSE i \in FormSplits(s) : TRUE
    IN  NumberValue(SubSeq(LastToken(s), i + 1, Len(LastToken(s))))

\* C13: the last blank-separated token of the resolution is read as WxH, W the
\* width and H the height; the noise has shape [1, 4, H // 8, W // 8] and is
\* duplicated to a batch of 2; a resolution that is not of this form (two
\* sizes around one x) raises inside the try block and yields a failure marker.
C13_ResolutionParsing ==
    s_loc.given # << >> =>
        IF FormSplits(Given.resolution) # { }
        THEN /\ s_pc # "except"
             /\ NoiseDrawn =>
                  /\ s_loc.w = StatedWidth(Given.resolution)
                  /\ s_loc.h = StatedHeight(Given.resolution)
                  /\ Len(s_loc.z) = 2
                  /\ \A i \in 1 .. 2 :
                       s_loc.z[i].shape =
                           << 1, 4, StatedHeight(Given.resolution) \div 8,
                              StatedWidth(Given.resolution) \div 8 >>
        ELSE /\ ~NoiseDrawn
             /\ s_pc = "get" => s_resp # << >> /\ s_resp[1].kind = "ModelFailure"

\* C13 witness: for "(Extrapolation) 1024x2048" the noise is 256 high and 128
\* wide
C13_Witness ==
    /\ NoiseDrawn
    /\ Given.resolution[1] = "("
    /\ s_loc.w = 1024 /\ s_loc.h = 2048
    /\ s_loc.z[1].shape = << 1, 4, 256, 128 >>

\* the arguments of the current request have been built
KwargsBuilt == s_pc \in { "run_solver", "decode", "publish_result" }

\* C14: the arguments always hold cap_feats, cap_mask and cfg_scale; they hold
\* ntk_factor exactly when ntk_scaling is set, with
\* ntk_factor * (image_size // 16)^2 = (w // 16) * (h // 16); they hold
\* proportional_attn = True and base_seqlen = (image_size // 16)^2 +
\* (image_size // 16) * 2 exactly when proportional_attn is set; nothing of an
\* earlier request is left in them.
C14_ModelKwargs ==
    KwargsBuilt =>
        LET keys == DOMAIN model_kwargs
            side == train_args.image_size \div 16
        IN  /\ { "cap_feats", "cap_mask", "cfg_scale" } \subseteq keys
            /\ keys \subseteq { "cap_feats", "cap_mask", "cfg_scale", "ntk_factor",
                                "proportional_attn", "base_seqlen" }
            /\ model_kwargs.cfg_scale = Given.cfg_scale
            /\ "ntk_factor" \in keys <=> Given.ntk_scaling
            /\ "proportional_attn" \in keys <=> Given.proportional_attn
            /\ "base_seqlen" \in keys <=> Given.proportional_attn
            /\ Given.ntk_scaling =>
                  /\ model_kwargs.ntk_factor.den # 0
                  /\ model_kwargs.ntk_factor.num * (side * side) =
                        model_kwargs.ntk_factor.den
                            * ((StatedWidth(Given.resolution) \div 16)
                               * (StatedHeight(Given.resolution) \div 16))
            /\ Given.proportional_attn =>
                  /\ model_kwargs.proportional_attn = TRUE
                  /\ model_kwargs.base_seqlen = side * side + side * 2

\* C14 witness: the second request has both toggles off and its arguments
\* are the three fixed ones
C14_Witness ==
    /\ KwargsBuilt /\ s_served = 2
    /\ ~Given.ntk_scaling /\ ~Given.proportional_attn
    /\ DOMAIN model_kwargs = { "cap_feats", "cap_mask", "cfg_scale" }

\* the tokens and mask of the current request have been built
TokensBuilt == s_pc \in { "kwargs", "run_solver", "decode", "publish_result" }

\* C15: the conditioning is a batch of two rows: row 0 the caption's tokens,
\* row 1 the empty caption's tokens, both padded with 0 to the longer length;
\* the mask of a row is true at position j exactly when j is below the row's
\* token count; both rows start from the same noise; only row 0 of the
\* solver's final state is decoded into the image.
C15_CfgConditioning ==
    /\ TokensBuilt =>
          LET rows == << tokenizer_encode(Given.cap), tokenizer_encode("") >>
              n == IF Len(rows[1]) >= Len(rows[2]) THEN Len(rows[1]) ELSE Len(rows[2])
          IN  /\ Len(s_loc.tok) = 2 /\ Len(s_loc.tok_mask) = 2 /\ Len(s_loc.z) = 2
              /\ s_loc.z[1] = s_loc.z[2]
              /\ \A i \in 1 .. 2 :
                   /\ Len(s_loc.tok[i]) = n /\ Len(s_loc.tok_mask[i]) = n
                   /\ \A j \in 1 .. n :
                        /\ j <= Len(rows[i]) => s_loc.tok[i][j] = rows[i][j]
                        /\ j > Len(rows[i]) => s_loc.tok[i][j] = 0
                        /\ s_loc.tok_mask[i][j] <=> (j - 1 < Len(rows[i]))
    /\ s_pc \in { "decode", "publish_result" } =>
          /\ Len(s_loc.samples) = 1
          /\ s_loc.samples[1].row = 0
          /\ s_loc.samples[1].cap = s_loc.tok[1]
    /\ s_pc = "publish_result" =>
          /\ s_loc.img[1].latent.row = 0
          /\ s_loc.img[1].latent.start = s_loc.z[1]

\* C15 witness: a caption longer than the empty caption is about to be
\* published; row 1 is padded and masked beyond its two tokens
C15_Witness ==
    /\ s_pc = "publish_result"
    /\ Len(s_loc.cap_tok) > Len(s_loc.null_cap_tok)
    /\ s_loc.tok[2][3] = 0 /\ ~s_loc.tok_mask[2][3] /\ s_loc.tok_mask[1][3]

\* ---- entry_point.py: the commands of the click group

\* entry_point.py: global_options
global_options ==
    { Opt(<<"--num_gpus">>, "int", "1", <<>>),
      Opt(<<"--ckpt">>, "str", "None", <<>>),
      Opt(<<"--ema">>, "flag", "False", <<>>),
      Opt(<<"--precision">>, "Choice", "bf16", <<"bf16", "fp32">>),
      Opt(<<"-c", "--config">>, "str", "cofing/infer/settings.yaml", <<>>),
      Opt(<<"--token">>, "bool", "False", <<>>) }

\* the declarations made with required=True
required_flags == { "--ckpt" }

\* the parameter name click derives from an option's long flag: the flag
\* without its leading dashes, every other dash turned into an underscore
option_name(flag) ==
    CASE flag = "--num_gpus" -> "num_gpus"
      [] flag = "--ckpt" -> "ckpt"
      [] flag = "--ema" -> "ema"
      [] flag = "--precision" -> "precision"
      [] flag = "--config" -> "config"
      [] flag = "--token" -> "token"
      [] flag = "--path-type" -> "path_type"
      [] flag = "--prediction" -> "prediction"
      [] flag = "--loss-weight" -> "loss_weight"
      [] flag = "--sample-eps" -> "sample_eps"
      [] flag = "--train-eps" -> "train_eps"

\* a parameter of a command: its name and whether the command line must give it
Param(name, required) == [ name |-> name, required |-> required ]

\* click.argument(name, required=...)
argument(name, required) == Param(name, required)

\* add_options(options): every option of the list is applied to the command
add_options(options) ==
    { Param(option_name(Long(o)), Long(o) \in required_flags) : o \in options }

\* the commands registered with entry_point.command()
Commands == { "infer", "infer_sde", "transport" }

\* the parameters that the decorators above each command attach to it
command_params(cmd) ==
    CASE cmd = "infer" ->
            add_options(global_options)
                \cup { argument("output_path", FALSE), argument("text", TRUE) }
      [] cmd = "infer_sde" ->
            add_options(global_options) \cup { argument("text", FALSE) }
      [] cmd = "transport" ->
            add_options(global_options) \cup add_options(transport_options)

\* the parameters in the signature of each command's function (none of them
\* has a default value)
handler_params(cmd) ==
    CASE cmd = "infer" ->
            { "num_gpus", "ckpt", "ema", "precision", "config", "text", "output_path" }
      [] cmd = "infer_sde" ->
            { "sampling_method", "diffusion_form", "diffusion_norm", "last_step",
              "last_step_size", "text" }
      [] cmd = "transport" ->
            { "path_type", "prediction", "loss_weight", "sample_eps", "train_eps" }

ParamNames(cmd) == { p.name : p \in command_params(cmd) }

RequiredNames(cmd) == { p.name : p \in { q \in command_params(cmd) : q.required } }

\* a command line: one of the commands and the parameters it gives a value to
CliInit ==
    /\ ProgramInit
    /\ s_pc = "off" /\ s_req = << >> /\ s_loc = NoLocals
    /\ rng = [ src |-> "default", seed |-> 0, pos |-> 0 ]
    /\ model_kwargs = << >> /\ train_args = [ image_size |-> 1024 ]
    /\ s_served = 0 /\ s_resp = << >>
    /\ \E cmd \in Commands : \E given \in SUBSET ParamNames(cmd) :
          cli = [ pc |-> "parse", command |-> cmd, argv |-> given, params |-> { },
                  outcome |-> "" ]

\* click parses the command line: a missing required parameter is a usage
\* error; otherwise every declared parameter gets its given or default value
cli_parse ==
    /\ cli.pc = "parse"
    /\ IF RequiredNames(cli.command) \subseteq cli.argv
       THEN cli' = [ cli EXCEPT !.pc = "invoke", !.params = ParamNames(cli.command) ]
       ELSE cli' = [ cli EXCEPT !.pc = "done", !.outcome = "UsageError" ]
    /\ UNCHANGED << s_pc, s_req, s_loc, rng, model_kwargs, train_args, s_served, s_resp >>
    /\ program_unchanged

\* click calls the command's function with the parsed parameters as keyword
\* arguments; Python raises TypeError for a keyword the function does not
\* take and for a parameter of the function that gets no value
cli_invoke ==
    /\ cli.pc = "invoke"
    /\ cli' = [ cli EXCEPT !.pc = "done",
                           !.outcome = IF cli.params = handler_params(cli.command)
                                       THEN "called" ELSE "TypeError" ]
    /\ UNCHANGED << s_pc, s_req, s_loc, rng, model_kwargs, train_args, s_served, s_resp >>
    /\ program_unchanged

CliNext == cli_parse \/ cli_invoke

CliSpec == CliInit /\ [][CliNext]_vars

\* C16: for each of infer, infer_sde and transport the parameters declared by
\* the decorators are exactly the parameters of the handler, so a command
\* line with valid flags ends in a call of the handler, without an unexpected
\* or missing keyword argument.
C16_HandlerMatchesDeclaration ==
    cli.pc = "done" /\ cli.outcome # "UsageError" =>
        /\ cli.outcome = "called"
        /\ cli.params = handler_params(cli.command)

====
